---- MODULE Spec2Model ----
(***************************************************************************)
(* Spaced-repetition progress engine of the language-learning backend:     *)
(* routes/flashcards.js (review, helpers) and server.js (progress update). *)
(* Ease factors are kept in hundredths (2.5 is 250); time is kept in       *)
(* seconds since the start of the behaviour (Date.getTime() / 1000).       *)
(***************************************************************************)
EXTENDS Integers, Sequences, FiniteSets, TLC

\* ---------------------------------------------------------------- bounds
MaxRequests == 2      \* requests accepted in one behaviour
MaxDays     == 1      \* days the clock may advance
MaxPriorInterval == 25 \* longest interval of a stored entry that is reviewed
MaxReviews  == 12     \* reviews one word receives in a row

\* ------------------------------------------------------- program constants
DaySec          == 86400
DefaultEase     == 250
MaxEase         == 300
MinEase         == 130
EasyBonus       == 15
MediumPenalty   == 5
HardPenalty     == 20
MasteredDays    == 21
NeedsReviewDays == 7

\* ------------------------------------------------------------- value sets
Null      == -1       \* JavaScript null / undefined timestamp
Undef     == -2       \* a field that is not a number
Missing   == "missing"            \* a body field that is absent (falsy)
Users     == {"u1"}               \* users that exist in the store
WellFormedUserIds == Users \cup {"u9"}  \* u9: well formed, no such user
WordIds   == {"w1", "w2", "w3"}   \* well-formed vocabulary ids
Reqs      == {1, 2}               \* request slots that may be in flight

NoProgress == [absent |-> TRUE]
NoDoc      == [none |-> TRUE]
NoEntry    == [none |-> TRUE]
NoReq      == [kind |-> "none"]
NoAnswer   == [kind |-> "none", status |-> 0]

EmptyProgress ==
  [words |-> <<>>, map |-> <<>>, wordsHistory |-> <<>>,
   mastered |-> <<>>, needsReview |-> <<>>]

DefaultEntry ==
  [ease |-> DefaultEase, interval |-> 0, reviewCount |-> 0,
   lastReviewed |-> Null, nextReview |-> Null]

VARIABLES
  db,        \* persisted user documents, one per user
  catalog,   \* ids of the vocabulary items that exist
  now,       \* the clock, in seconds
  pc,        \* position of each request slot in its handler
  req,       \* the request each slot is serving
  doc,       \* the user document the handler loaded (its local copy)
  prev,      \* the prior entry the review read
  updated,   \* the entry the review computed
  answer,    \* the last response sent: the handler's kind and the HTTP status
  nreq,      \* requests accepted so far
  stale,     \* per slot: a save was committed to the user's document after
             \* this handler loaded it
  acked      \* per user: the words whose review was answered 200

vars == <<db, catalog, now, pc, req, doc, prev, updated, answer, nreq,
          stale, acked>>

\* ---------------------------------------------------------------- helpers
\* the strings that are 24-digit hexadecimal object ids
ObjectIds == WordIds \cup WellFormedUserIds

\* a variant that accepts every id
isValidObjectIdAlways(id) == TRUE

isValidObjectId(id) == id \in ObjectIds

Min(a, b) == IF a < b THEN a ELSE b
Max(a, b) == IF a > b THEN a ELSE b

\* Math.ceil(interval * x) for x given in hundredths, in exact arithmetic
CeilMul(interval, x100) == (interval * x100 + 99) \div 100

\* Array.prototype.findIndex on an array of ids; 0 stands for -1
RECURSIVE FindFrom(_, _, _)
FindFrom(s, id, i) ==
  IF i > Len(s) THEN 0
  ELSE IF s[i] = id THEN i ELSE FindFrom(s, id, i + 1)

findIndex(s, id) == FindFrom(s, id, 1)

\* findIndex / find on wordsHistory, matching on e.wordId
RECURSIVE FindHistFrom(_, _, _)
FindHistFrom(h, id, i) ==
  IF i > Len(h) THEN 0
  ELSE IF h[i].wordId = id THEN i ELSE FindHistFrom(h, id, i + 1)

findHistoryIndex(h, id) == FindHistFrom(h, id, 1)

\* Array.prototype.splice(i, 1)
splice(s, i) == SubSeq(s, 1, i - 1) \o SubSeq(s, i + 1, Len(s))

\* obj[key] = value on a keyed object
Put(f, k, v) == [x \in (DOMAIN f) \cup {k} |-> IF x = k THEN v ELSE f[x]]

\* ------------------------------------------------ routes/flashcards.js
\* lines 31-34: a structure that is absent is created empty
withStructures(progress) ==
  [f \in DOMAIN progress \cup {"words", "wordsHistory", "mastered", "needsReview"}
     |-> IF f \in DOMAIN progress THEN progress[f] ELSE <<>>]

ensureProgressStructure(user) ==
  IF user.progress = NoProgress THEN [user EXCEPT !.progress = EmptyProgress]
  ELSE [user EXCEPT !.progress = withStructures(@)]

\* typeof x === 'number' ? x : d
NumberOr(x, d) == IF x = Undef THEN d ELSE x

\* x || 0 on a count
CountOr0(x) == IF x = Undef THEN 0 ELSE x

\* a variant that looks in the history array first
getProgressEntryHistoryFirst(user, wordId) ==
  LET u == ensureProgressStructure(user)
      idx == findHistoryIndex(u.progress.wordsHistory, wordId)
  IN  IF idx # 0 THEN
        LET historyEntry == u.progress.wordsHistory[idx]
        IN  [ease |-> NumberOr(historyEntry.ease, DefaultEase),
             interval |-> NumberOr(historyEntry.interval, 0),
             reviewCount |-> CountOr0(historyEntry.reviewCount),
             lastReviewed |-> historyEntry.lastReviewed,
             nextReview |-> historyEntry.nextReview]
      ELSE IF wordId \in DOMAIN u.progress.words THEN u.progress.words[wordId]
      ELSE DefaultEntry

getProgressEntry(user, wordId) ==
  LET u == ensureProgressStructure(user)
      idx == findHistoryIndex(u.progress.wordsHistory, wordId)
  IN  IF wordId \in DOMAIN u.progress.words THEN u.progress.words[wordId]
      ELSE IF idx # 0 THEN
        LET historyEntry == u.progress.wordsHistory[idx]
        IN  [ease |-> NumberOr(historyEntry.ease, DefaultEase),
             interval |-> NumberOr(historyEntry.interval, 0),
             reviewCount |-> CountOr0(historyEntry.reviewCount),
             lastReviewed |-> historyEntry.lastReviewed,
             nextReview |-> historyEntry.nextReview]
      ELSE DefaultEntry

historyObj(wordId, entry) ==
  [wordId |-> wordId, ease |-> entry.ease, interval |-> entry.interval,
   reviewCount |-> entry.reviewCount, lastReviewed |-> entry.lastReviewed,
   nextReview |-> entry.nextReview]

\* a variant that always pushes
upsertHistoryAlwaysPush(wordsHistory, wordId, entry) ==
  Append(wordsHistory, historyObj(wordId, entry))

\* a variant that leaves the history array alone
upsertHistorySkipped(wordsHistory, wordId, entry) == wordsHistory

\* a variant that puts a new tuple at the front of the history array
upsertHistoryAtFront(wordsHistory, wordId, entry) ==
  LET idx == findHistoryIndex(wordsHistory, wordId)
  IN  IF idx = 0 THEN <<historyObj(wordId, entry)>> \o wordsHistory
      ELSE [wordsHistory EXCEPT ![idx] = historyObj(wordId, entry)]

\* the upsert of the history array, lines 91-102
upsertHistory(wordsHistory, wordId, entry) ==
  LET idx == findHistoryIndex(wordsHistory, wordId)
  IN  IF idx = 0 THEN Append(wordsHistory, historyObj(wordId, entry))
      ELSE [wordsHistory EXCEPT ![idx] = historyObj(wordId, entry)]

isMastered(entry) == entry.interval >= MasteredDays
isNeeds(entry)    == entry.interval # Undef /\ entry.interval < NeedsReviewDays

\* a variant that rebuilds the mastered array from the written word alone
updateMasteredRebuilt(mastered, wordId, entry) ==
  IF isMastered(entry) THEN <<wordId>> ELSE <<>>

\* a variant that never removes a word from mastered
updateMasteredNoDemotion(mastered, wordId, entry) ==
  IF isMastered(entry) /\ findIndex(mastered, wordId) = 0
  THEN Append(mastered, wordId) ELSE mastered

\* the mastered array after the update of lines 104-121
updateMastered(mastered, wordId, entry) ==
  LET masteredIdx == findIndex(mastered, wordId)
  IN  IF isMastered(entry)
      THEN (IF masteredIdx = 0 THEN Append(mastered, wordId) ELSE mastered)
      ELSE (IF masteredIdx # 0 THEN splice(mastered, masteredIdx) ELSE mastered)

\* a variant that pushes without looking for the word first
updateNeedsReviewAlwaysPush(needsReview, wordId, entry) ==
  LET needsIdx == findIndex(needsReview, wordId)
  IN  IF isMastered(entry)
      THEN (IF needsIdx # 0 THEN splice(needsReview, needsIdx) ELSE needsReview)
      ELSE IF isNeeds(entry)
      THEN Append(needsReview, wordId)
      ELSE (IF needsIdx # 0 THEN splice(needsReview, needsIdx) ELSE needsReview)

\* a variant that never removes a word from needsReview
updateNeedsReviewNoRemoval(needsReview, wordId, entry) ==
  IF isNeeds(entry) /\ findIndex(needsReview, wordId) = 0
  THEN Append(needsReview, wordId) ELSE needsReview

\* the needsReview array after the update of lines 104-121
updateNeedsReview(needsReview, wordId, entry) ==
  LET needsIdx == findIndex(needsReview, wordId)
  IN  IF isMastered(entry)
      THEN (IF needsIdx # 0 THEN splice(needsReview, needsIdx) ELSE needsReview)
      ELSE IF isNeeds(entry)
      THEN (IF needsIdx = 0 THEN Append(needsReview, wordId) ELSE needsReview)
      ELSE (IF needsIdx # 0 THEN splice(needsReview, needsIdx) ELSE needsReview)

\* a variant that fills the defaults in before it stores the entry
setProgressEntryFilled(user, wordId, entry) ==
  LET u == ensureProgressStructure(user)
      p == u.progress
      e == [ease |-> NumberOr(entry.ease, DefaultEase),
            interval |-> NumberOr(entry.interval, 0),
            reviewCount |-> CountOr0(entry.reviewCount),
            lastReviewed |-> entry.lastReviewed,
            nextReview |-> entry.nextReview]
  IN  [u EXCEPT !.progress =
        [p EXCEPT
          !.words = Put(p.words, wordId, e),
          !.wordsHistory = upsertHistory(p.wordsHistory, wordId, e),
          !.mastered = updateMastered(p.mastered, wordId, e),
          !.needsReview = updateNeedsReview(p.needsReview, wordId, e)]]

setProgressEntry(user, wordId, entry) ==
  LET u == ensureProgressStructure(user)
      p == u.progress
  IN  [u EXCEPT !.progress =
        [p EXCEPT
          !.words = Put(p.words, wordId,
                        [ease |-> entry.ease, interval |-> entry.interval,
                         reviewCount |-> entry.reviewCount,
                         lastReviewed |-> entry.lastReviewed,
                         nextReview |-> entry.nextReview]),
          !.wordsHistory = upsertHistory(p.wordsHistory, wordId, entry),
          !.mastered = updateMastered(p.mastered, wordId, entry),
          !.needsReview = updateNeedsReview(p.needsReview, wordId, entry)]]

\* Math.ceil(interval * ease) is computed on IEEE doubles.  The ease is a sum
\* of 0.15 / 0.05 / 0.2 steps, so it can sit a few ulps above its decimal
\* value; when interval * ease is a whole number in exact arithmetic the
\* double product can then exceed it and ceil gives one more.  An ease of
\* exactly 3.0 comes from the clamp and multiplies exactly.
CeilEase(interval, ease) ==
  IF (interval * ease) % 100 = 0 /\ ease # MaxEase
  THEN {CeilMul(interval, ease), CeilMul(interval, ease) + 1}
  ELSE {CeilMul(interval, ease)}

\* a variant without the clamps
newEaseUnclamped(ease, difficulty) ==
  IF difficulty = "easy" THEN ease + EasyBonus
  ELSE IF difficulty = "medium" THEN ease - MediumPenalty
  ELSE ease - HardPenalty

newEase(ease, difficulty) ==
  IF difficulty = "easy" THEN Min(MaxEase, ease + EasyBonus)
  ELSE IF difficulty = "medium" THEN Max(MinEase, ease - MediumPenalty)
  ELSE Max(MinEase, ease - HardPenalty)

\* a variant in which easy applies the ease twice
newIntervalsEasyTwice(interval, ease, difficulty) ==
  IF difficulty = "easy"
  THEN (IF interval = 0 THEN {1}
        ELSE {CeilMul(i, ease) : i \in CeilEase(interval, ease)})
  ELSE IF difficulty = "medium"
  THEN (IF interval = 0 THEN {1} ELSE {CeilMul(interval, 120)})
  ELSE {1}

\* a variant in which medium multiplies by 1.1
newIntervalsMediumTenth(interval, ease, difficulty) ==
  IF difficulty = "easy"
  THEN (IF interval = 0 THEN {1} ELSE CeilEase(interval, ease))
  ELSE IF difficulty = "medium"
  THEN (IF interval = 0 THEN {1} ELSE {CeilMul(interval, 110)})
  ELSE {1}

\* a variant in which hard keeps the prior interval
newIntervalsHardKeeps(interval, ease, difficulty) ==
  IF difficulty = "easy"
  THEN (IF interval = 0 THEN {1} ELSE CeilEase(interval, ease))
  ELSE IF difficulty = "medium"
  THEN (IF interval = 0 THEN {1} ELSE {CeilMul(interval, 120)})
  ELSE {Max(1, interval)}

\* a variant in which medium multiplies by the ease
newIntervalsMediumByEase(interval, ease, difficulty) ==
  IF difficulty = "hard" THEN {1}
  ELSE IF interval = 0 THEN {1} ELSE CeilEase(interval, ease)

\* the intervals lines 202-213 can produce; ease is the updated ease
newIntervals(interval, ease, difficulty) ==
  IF difficulty = "easy"
  THEN (IF interval = 0 THEN {1} ELSE CeilEase(interval, ease))
  ELSE IF difficulty = "medium"
  THEN (IF interval = 0 THEN {1} ELSE {CeilMul(interval, 120)})
  ELSE {1}

\* a variant that multiplies by the prior ease
scheduleByPriorEase(p, difficulty, t) ==
  LET ease0     == NumberOr(p.ease, DefaultEase)
      interval0 == NumberOr(p.interval, 0)
      count0    == CountOr0(p.reviewCount)
  IN  {[ease |-> newEase(ease0, difficulty), interval |-> i,
        reviewCount |-> count0 + 1,
        lastReviewed |-> t, nextReview |-> t + i * DaySec] :
         i \in newIntervals(interval0, ease0, difficulty)}

\* a variant that does not count the review
scheduleUncounted(p, difficulty, t) ==
  LET ease1 == newEase(NumberOr(p.ease, DefaultEase), difficulty)
  IN  {[ease |-> ease1, interval |-> i, reviewCount |-> CountOr0(p.reviewCount),
        lastReviewed |-> t, nextReview |-> t + i * DaySec] :
         i \in newIntervals(NumberOr(p.interval, 0), ease1, difficulty)}

\* a variant that always schedules the next review a day later
scheduleNextDay(p, difficulty, t) ==
  LET ease1 == newEase(NumberOr(p.ease, DefaultEase), difficulty)
  IN  {[ease |-> ease1, interval |-> i,
        reviewCount |-> CountOr0(p.reviewCount) + 1,
        lastReviewed |-> t, nextReview |-> t + DaySec] :
         i \in newIntervals(NumberOr(p.interval, 0), ease1, difficulty)}

\* lines 196-224: the entries a review of p with this difficulty can produce
schedule(p, difficulty, t) ==
  LET ease0     == NumberOr(p.ease, DefaultEase)
      interval0 == NumberOr(p.interval, 0)
      count0    == CountOr0(p.reviewCount)
      ease1     == newEase(ease0, difficulty)
  IN  {[ease |-> ease1, interval |-> i, reviewCount |-> count0 + 1,
        lastReviewed |-> t, nextReview |-> t + i * DaySec] :
         i \in newIntervals(interval0, ease1, difficulty)}

\* --------------------------------------------------------- the user store
\* user.save(): the document the handler holds replaces the stored one
save(stored, document) == document

\* the positions at which a handler holds what it loaded of a user document
LoadedAt ==
  {"findWord", "save", "putSave", "dueFindWords", "flashcardsFindWords",
   "pageCount"}

\* a committed save makes every other loaded copy of that user's document stale
Outdated(r, userId) ==
  [q \in Reqs |-> IF q = r THEN FALSE
                  ELSE IF pc[q] \in LoadedAt
                          /\ req[q].userId = userId
                  THEN TRUE ELSE stale[q]]

\* the handler answers with this status and returns; its locals are gone
Respond(r, code) ==
  /\ pc' = [pc EXCEPT ![r] = "idle"]
  /\ answer' = [kind |-> req[r].kind, status |-> code]
  /\ req' = [req EXCEPT ![r] = NoReq]
  /\ doc' = [doc EXCEPT ![r] = NoDoc]
  /\ prev' = [prev EXCEPT ![r] = NoEntry]
  /\ updated' = [updated EXCEPT ![r] = NoEntry]

\* the handler moves on to its next await
Goto(r, label) ==
  /\ pc' = [pc EXCEPT ![r] = label]
  /\ UNCHANGED <<answer, req>>

\* the slot a new request is served in: the lowest one that is free
FreeSlot(r) ==
  /\ pc[r] = "idle"
  /\ \A q \in Reqs : q < r => pc[q] # "idle"

\* a request arrives
Accept(r) ==
  /\ FreeSlot(r)
  /\ nreq < MaxRequests
  /\ nreq' = nreq + 1

\* the review requests that are sent: the user reviews every catalog word
\* with every difficulty, a recognised one or not, and one request is sent
\* for each way of being malformed or unresolvable
ReviewRequests ==
  { [kind |-> "review", userId |-> u, wordId |-> w, difficulty |-> d] :
      u \in Users, w \in {"w1", "w2"}, d \in {"easy", "medium", "hard", "other"} }
  \cup
  { [kind |-> "review", userId |-> "u1", wordId |-> Missing, difficulty |-> "easy"],
    [kind |-> "review", userId |-> "u1", wordId |-> "w1", difficulty |-> Missing],
    [kind |-> "review", userId |-> "bad", wordId |-> "w1", difficulty |-> "easy"],
    [kind |-> "review", userId |-> "u1", wordId |-> "bad", difficulty |-> "easy"],
    [kind |-> "review", userId |-> "u9", wordId |-> "w1", difficulty |-> "easy"],
    [kind |-> "review", userId |-> "u1", wordId |-> "w3", difficulty |-> "easy"] }

\* ------------------------------------- POST /api/flashcards/review
\* lines 170-173: a review request arrives
ReviewStart(r, request) ==
  /\ Accept(r)
  /\ pc' = [pc EXCEPT ![r] = "validate"]
  /\ req' = [req EXCEPT ![r] = request]
  /\ UNCHANGED <<db, catalog, now, doc, prev, updated, answer, stale, acked>>

\* lines 175-182: the body is validated and User.findById is called
ReviewValidate(r) ==
  /\ pc[r] = "validate" /\ req[r].kind = "review"
  /\ IF req[r].wordId = Missing \/ req[r].difficulty = Missing
        \/ ~isValidObjectId(req[r].userId) \/ ~isValidObjectId(req[r].wordId)
     THEN Respond(r, 400)
     ELSE /\ Goto(r, "findUser")
          /\ UNCHANGED <<doc, prev, updated>>
  /\ UNCHANGED <<db, catalog, now, nreq, stale, acked>>

\* lines 182-187: User.findById resolves and Word.findById is called
ReviewFindUser(r) ==
  /\ pc[r] = "findUser" /\ req[r].kind = "review"
  /\ IF req[r].userId \in Users
     THEN /\ doc' = [doc EXCEPT ![r] = db[req[r].userId]]
          /\ stale' = [stale EXCEPT ![r] = FALSE]
          /\ Goto(r, "findWord")
          /\ UNCHANGED <<prev, updated>>
     ELSE /\ Respond(r, 404)
          /\ UNCHANGED stale
  /\ UNCHANGED <<db, catalog, now, nreq, acked>>

\* lines 187-229: Word.findById resolves; the entry is computed and written
\* into the loaded document, and user.save() is called
ReviewCompute(r) ==
  /\ pc[r] = "findWord" /\ req[r].kind = "review"
  /\ IF req[r].wordId \in catalog
     THEN LET user == ensureProgressStructure(doc[r])
              p    == getProgressEntry(user, req[r].wordId)
          IN  /\ \E e \in schedule(p, req[r].difficulty, now) :
                   /\ prev' = [prev EXCEPT ![r] = p]
                   /\ updated' = [updated EXCEPT ![r] = e]
                   /\ doc' = [doc EXCEPT ![r] =
                                setProgressEntry(user, req[r].wordId, e)]
              /\ Goto(r, "save")
              /\ UNCHANGED stale
     ELSE /\ Respond(r, 404)
          /\ stale' = [stale EXCEPT ![r] = FALSE]
  /\ UNCHANGED <<db, catalog, now, nreq, acked>>

\* lines 229-235: the save is committed and the review answers 200
ReviewSaved(r) ==
  /\ pc[r] = "save" /\ req[r].kind = "review"
  /\ db' = [db EXCEPT ![req[r].userId] = save(@, doc[r])]
  /\ stale' = Outdated(r, req[r].userId)
  /\ acked' = [acked EXCEPT ![req[r].userId] = @ \cup {req[r].wordId}]
  /\ Respond(r, 200)
  /\ UNCHANGED <<catalog, now, nreq>>

\* lines 236-239: the save throws and the review answers 500
ReviewSaveFailed(r) ==
  /\ pc[r] = "save" /\ req[r].kind = "review"
  /\ Respond(r, 500)
  /\ stale' = [stale EXCEPT ![r] = FALSE]
  /\ UNCHANGED <<db, catalog, now, nreq, acked>>

\* ------------------------------------------- PUT /api/words/:id (server.js)
\* x || d on a body field
OrDefault(x, d) == IF x = Undef \/ x = 0 THEN d ELSE x

\* lines 193-199: the entry the handler stores for a request body
putEntry(body, t) ==
  [ease |-> OrDefault(body.ease, DefaultEase),
   interval |-> OrDefault(body.interval, 0),
   reviewCount |-> OrDefault(body.reviewCount, 0),
   lastReviewed |-> OrDefault(body.lastReviewed, t),
   nextReview |-> OrDefault(body.nextReview, Null)]

\* lines 187-199: user.progress.words.map.set(id, entry)
setMapEntry(user, id, entry) ==
  [user EXCEPT !.progress.map = Put(@, id, entry)]

EmptyBody ==
  [ease |-> Undef, interval |-> Undef, reviewCount |-> Undef,
   lastReviewed |-> Undef, nextReview |-> Undef]

\* the progress updates that are sent: one with every field, one with none,
\* and one for each way of being unresolvable
PutRequests ==
  { [kind |-> "put", userId |-> "u1", wordId |-> "w1",
     body |-> [ease |-> 280, interval |-> 30, reviewCount |-> 4,
               lastReviewed |-> DaySec, nextReview |-> 31 * DaySec]],
    [kind |-> "put", userId |-> "u1", wordId |-> "w2", body |-> EmptyBody],
    [kind |-> "put", userId |-> "u1", wordId |-> "w3", body |-> EmptyBody],
    [kind |-> "put", userId |-> "u1", wordId |-> "bad", body |-> EmptyBody],
    [kind |-> "put", userId |-> "u9", wordId |-> "w1", body |-> EmptyBody] }

\* lines 176-181: the request arrives and Word.findById is called
PutStart(r, request) ==
  /\ Accept(r)
  /\ pc' = [pc EXCEPT ![r] = "putFindWord"]
  /\ req' = [req EXCEPT ![r] = request]
  /\ UNCHANGED <<db, catalog, now, doc, prev, updated, answer, stale, acked>>

\* lines 181-184: Word.findById resolves (or rejects a malformed id) and
\* User.findById is called
PutFindWord(r) ==
  /\ pc[r] = "putFindWord" /\ req[r].kind = "put"
  /\ IF ~isValidObjectId(req[r].wordId) THEN Respond(r, 400)
     ELSE IF req[r].wordId \notin catalog THEN Respond(r, 404)
     ELSE /\ Goto(r, "putFindUser")
          /\ UNCHANGED <<doc, prev, updated>>
  /\ UNCHANGED <<db, catalog, now, nreq, stale, acked>>

\* lines 184-201: User.findById resolves; the entry is set in the map of the
\* loaded document and user.save() is called.  A document without progress
\* makes user.progress.words throw, which the handler answers with 400.
PutFindUser(r) ==
  /\ pc[r] = "putFindUser" /\ req[r].kind = "put"
  /\ IF req[r].userId \notin Users THEN Respond(r, 404) /\ UNCHANGED stale
     ELSE IF db[req[r].userId].progress = NoProgress
     THEN Respond(r, 400) /\ UNCHANGED stale
     ELSE /\ doc' = [doc EXCEPT ![r] =
                       setMapEntry(db[req[r].userId], req[r].wordId,
                                   putEntry(req[r].body, now))]
          /\ stale' = [stale EXCEPT ![r] = FALSE]
          /\ Goto(r, "putSave")
          /\ UNCHANGED <<prev, updated>>
  /\ UNCHANGED <<db, catalog, now, nreq, acked>>

\* lines 201-210: the save is committed and the update answers 200
PutSaved(r) ==
  /\ pc[r] = "putSave" /\ req[r].kind = "put"
  /\ db' = [db EXCEPT ![req[r].userId] = save(@, doc[r])]
  /\ stale' = Outdated(r, req[r].userId)
  /\ Respond(r, 200)
  /\ UNCHANGED <<catalog, now, nreq, acked>>

\* lines 211-214: the save throws and the update answers 400
PutSaveFailed(r) ==
  /\ pc[r] = "putSave" /\ req[r].kind = "put"
  /\ Respond(r, 400)
  /\ stale' = [stale EXCEPT ![r] = FALSE]
  /\ UNCHANGED <<db, catalog, now, nreq, acked>>

\* the clock advances by a day
Tick ==
  /\ now < MaxDays * DaySec
  /\ now' = now + DaySec
  /\ UNCHANGED <<db, catalog, pc, req, doc, prev, updated, answer, nreq,
                 stale, acked>>

\* The documents a behaviour starts from are documents the review handler
\* produces: a document is replayed from a user without progress by
\* committing, one after the other at time 0, the reviews of a history.
RECURSIVE Replay(_, _)
Replay(user, history) ==
  IF history = <<>> THEN {user}
  ELSE LET wordId     == Head(history)[1]
           difficulty == Head(history)[2]
           p          == getProgressEntry(user, wordId)
       IN  UNION { Replay(setProgressEntry(user, wordId, e), Tail(history)) :
                     e \in schedule(p, difficulty, 0) }

\* the histories replayed: none, and three easy reviews of w1, which leave
\* it at interval 9, in neither tier and one easy review from mastered
SeedHistories ==
  { <<>>,
    << <<"w1", "easy">>, <<"w1", "easy">>, <<"w1", "easy">> >> }

SeedDocuments ==
  {[progress |-> EmptyProgress]}
  \cup UNION { Replay([progress |-> NoProgress], h) : h \in SeedHistories }

Init ==
  /\ db \in [Users -> SeedDocuments]
  /\ catalog = {"w1", "w2"}
  /\ now = 0
  /\ pc = [r \in Reqs |-> "idle"]
  /\ req = [r \in Reqs |-> NoReq]
  /\ doc = [r \in Reqs |-> NoDoc]
  /\ prev = [r \in Reqs |-> NoEntry]
  /\ updated = [r \in Reqs |-> NoEntry]
  /\ answer = NoAnswer
  /\ nreq = 0
  /\ stale = [r \in Reqs |-> FALSE]
  /\ acked = [u \in Users |-> {}]

Next ==
  \/ \E r \in Reqs, request \in ReviewRequests : ReviewStart(r, request)
  \/ \E r \in Reqs : ReviewValidate(r)
  \/ \E r \in Reqs : ReviewFindUser(r)
  \/ \E r \in Reqs : ReviewCompute(r)
  \/ \E r \in Reqs : ReviewSaved(r)
  \/ \E r \in Reqs : ReviewSaveFailed(r)
  \/ \E r \in Reqs, request \in PutRequests : PutStart(r, request)
  \/ \E r \in Reqs : PutFindWord(r)
  \/ \E r \in Reqs : PutFindUser(r)
  \/ \E r \in Reqs : PutSaved(r)
  \/ \E r \in Reqs : PutSaveFailed(r)
  \/ Tick

Spec == Init /\ [][Next]_vars

\* ------------------------------------------------ GET /api/flashcards/due
\* the collation rank of each word's portuguese field
portuguese == [w \in WordIds |-> CASE w = "w1" -> 2 [] w = "w2" -> 1 [] OTHER -> 3]

\* .sort({ portuguese: 1 })
RECURSIVE sortByPortuguese(_)
sortByPortuguese(words) ==
  IF words = {} THEN <<>>
  ELSE LET first == CHOOSE w \in words :
                      \A v \in words : portuguese[w] <= portuguese[v]
       IN  <<first>> \o sortByPortuguese(words \ {first})

\* Word.find().sort({ portuguese: 1 })
WordFind == sortByPortuguese(catalog)

\* x || null
OrNull(x) == IF x = Undef THEN Null ELSE x

\* a variant for which a word without nextReview is not due
isDueOnlyWhenScheduled(progress, t) ==
  progress.nextReview \notin {Null, Undef} /\ progress.nextReview <= t

\* a variant for which a word is due only after its nextReview has passed
isDueAfter(progress, t) ==
  IF progress.nextReview \in {Null, Undef} THEN TRUE
  ELSE progress.nextReview < t

\* lines 263-275: the predicate of the filter
isDue(progress, t) ==
  IF progress.nextReview \in {Null, Undef} THEN TRUE
  ELSE progress.nextReview <= t

\* lines 280-287 (and 148-156): a catalog item merged with its progress
withProgress(wordId, progress) ==
  [wordId |-> wordId,
   ease |-> NumberOr(progress.ease, DefaultEase),
   interval |-> NumberOr(progress.interval, 0),
   reviewCount |-> CountOr0(progress.reviewCount),
   lastReviewed |-> OrNull(progress.lastReviewed),
   nextReview |-> OrNull(progress.nextReview)]

\* a variant that returns the due words soonest nextReview first
RECURSIVE sortByNextReview(_, _)
sortByNextReview(user, words) ==
  IF words = {} THEN <<>>
  ELSE LET first == CHOOSE w \in words : \A v \in words :
                      getProgressEntry(user, w).nextReview
                        <= getProgressEntry(user, v).nextReview
       IN  <<first>> \o sortByNextReview(user, words \ {first})

filterDueByDate(user, words, t) ==
  sortByNextReview(user, {words[i] : i \in {j \in 1..Len(words) :
                            isDue(getProgressEntry(user, words[j]), t)}})

\* words.filter(...)
filterDue(user, words, t) ==
  SelectSeq(words, LAMBDA w : isDue(getProgressEntry(user, w), t))

\* lines 263-288: words.filter(...).map(...)
dueWords(user, words, t) ==
  LET due == filterDue(user, words, t)
  IN  [i \in 1..Len(due) |-> withProgress(due[i], getProgressEntry(user, due[i]))]

\* the handler answers 200 with a list and returns
RespondList(r, body) ==
  /\ pc' = [pc EXCEPT ![r] = "idle"]
  /\ answer' = [kind |-> req[r].kind, status |-> 200, body |-> body]
  /\ req' = [req EXCEPT ![r] = NoReq]
  /\ doc' = [doc EXCEPT ![r] = NoDoc]
  /\ prev' = [prev EXCEPT ![r] = NoEntry]
  /\ updated' = [updated EXCEPT ![r] = NoEntry]

\* the authenticated users that ask for a list: an existing one, one whose
\* account is gone, and one whose token carries a malformed id
ListUsers == {"u1", "u9", "bad"}

DueRequests == {[kind |-> "due", userId |-> u] : u \in ListUsers}

\* line 246: a due query arrives
DueStart(r, request) ==
  /\ Accept(r)
  /\ pc' = [pc EXCEPT ![r] = "dueFindUser"]
  /\ req' = [req EXCEPT ![r] = request]
  /\ UNCHANGED <<db, catalog, now, doc, prev, updated, answer, stale, acked>>

\* lines 248-259: the id is validated, User.findById(...).lean() resolves
\* and Word.find() is called
DueFindUser(r) ==
  /\ pc[r] = "dueFindUser" /\ req[r].kind = "due"
  /\ IF ~isValidObjectId(req[r].userId) THEN Respond(r, 400)
     ELSE IF req[r].userId \notin Users THEN Respond(r, 404)
     ELSE /\ doc' = [doc EXCEPT ![r] = db[req[r].userId]]
          /\ Goto(r, "dueFindWords")
          /\ UNCHANGED <<prev, updated>>
  /\ stale' = [stale EXCEPT ![r] = FALSE]
  /\ UNCHANGED <<db, catalog, now, nreq, acked>>

\* a variant that saves the object getProgressEntry was given
DueRespondSaving(r) ==
  /\ pc[r] = "dueFindWords" /\ req[r].kind = "due"
  /\ RespondList(r, dueWords(doc[r], WordFind, now))
  /\ db' = [db EXCEPT ![req[r].userId] = ensureProgressStructure(doc[r])]
  /\ stale' = [stale EXCEPT ![r] = FALSE]
  /\ UNCHANGED <<catalog, now, nreq, acked>>

\* lines 259-290: Word.find() resolves, the list is filtered at the time
\* read then, merged and sent
DueRespond(r) ==
  /\ pc[r] = "dueFindWords" /\ req[r].kind = "due"
  /\ RespondList(r, dueWords(doc[r], WordFind, now))
  /\ stale' = [stale EXCEPT ![r] = FALSE]
  /\ UNCHANGED <<db, catalog, now, nreq, acked>>

\* ------------------------------------ GET /api/flashcards (flashcards.js)
\* lines 148-160: words.map(...)
wordsWithProgress(user, words) ==
  [i \in 1..Len(words) |-> withProgress(words[i], getProgressEntry(user, words[i]))]

FlashcardsRequests == {[kind |-> "flashcards", userId |-> u] : u \in ListUsers}

\* line 128: a listing request arrives
FlashcardsStart(r, request) ==
  /\ Accept(r)
  /\ pc' = [pc EXCEPT ![r] = "flashcardsFindUser"]
  /\ req' = [req EXCEPT ![r] = request]
  /\ UNCHANGED <<db, catalog, now, doc, prev, updated, answer, stale, acked>>

\* lines 130-141: the id is validated, User.findById(...).lean() resolves
\* and Word.find() is called
FlashcardsFindUser(r) ==
  /\ pc[r] = "flashcardsFindUser" /\ req[r].kind = "flashcards"
  /\ IF ~isValidObjectId(req[r].userId) THEN Respond(r, 400)
     ELSE IF req[r].userId \notin Users THEN Respond(r, 404)
     ELSE /\ doc' = [doc EXCEPT ![r] = db[req[r].userId]]
          /\ Goto(r, "flashcardsFindWords")
          /\ UNCHANGED <<prev, updated>>
  /\ stale' = [stale EXCEPT ![r] = FALSE]
  /\ UNCHANGED <<db, catalog, now, nreq, acked>>

\* lines 141-158: Word.find() resolves, the words are merged and sent
FlashcardsRespond(r) ==
  /\ pc[r] = "flashcardsFindWords" /\ req[r].kind = "flashcards"
  /\ RespondList(r, wordsWithProgress(doc[r], WordFind))
  /\ stale' = [stale EXCEPT ![r] = FALSE]
  /\ UNCHANGED <<db, catalog, now, nreq, acked>>

\* ------------------------------------------- GET /api/words (server.js)
\* {}: every field is undefined
EmptyObject ==
  [ease |-> Undef, interval |-> Undef, reviewCount |-> Undef,
   lastReviewed |-> Undef, nextReview |-> Undef]

\* user?.progress?.words?.map?.get(id) || {}
mapGet(user, id) ==
  IF user = NoDoc THEN EmptyObject
  ELSE IF user.progress = NoProgress THEN EmptyObject
  ELSE IF id \in DOMAIN user.progress.map THEN user.progress.map[id]
  ELSE EmptyObject

\* User.findById(id): the stored document, or null
findUser(id) == IF id \in Users THEN db[id] ELSE NoDoc

\* server.js lines 144-154: words.map(...), the fields as they are
wordsWithMapProgress(user, words) ==
  [i \in 1..Len(words) |->
     LET progress == mapGet(user, words[i])
     IN  [wordId |-> words[i], ease |-> progress.ease,
          interval |-> progress.interval,
          reviewCount |-> progress.reviewCount,
          lastReviewed |-> progress.lastReviewed,
          nextReview |-> progress.nextReview]]

WordsRequests == {[kind |-> "words", userId |-> u] : u \in ListUsers}

\* server.js lines 139-141: a listing request arrives and Word.find() is called
WordsStart(r, request) ==
  /\ Accept(r)
  /\ pc' = [pc EXCEPT ![r] = "wordsFind"]
  /\ req' = [req EXCEPT ![r] = request]
  /\ UNCHANGED <<db, catalog, now, doc, prev, updated, answer, stale, acked>>

\* server.js lines 141-142: Word.find() resolves and User.findById is called
WordsFound(r) ==
  /\ pc[r] = "wordsFind" /\ req[r].kind = "words"
  /\ doc' = [doc EXCEPT ![r] = [words |-> WordFind]]
  /\ Goto(r, "wordsFindUser")
  /\ UNCHANGED <<db, catalog, now, prev, updated, nreq, stale, acked>>

\* server.js lines 142-160: User.findById resolves (it throws on a malformed
\* id), the words are merged with the entries of progress.words.map and sent
WordsRespond(r) ==
  /\ pc[r] = "wordsFindUser" /\ req[r].kind = "words"
  /\ IF ~isValidObjectId(req[r].userId) THEN Respond(r, 500)
     ELSE RespondList(r, wordsWithMapProgress(findUser(req[r].userId),
                                              doc[r].words))
  /\ stale' = [stale EXCEPT ![r] = FALSE]
  /\ UNCHANGED <<db, catalog, now, nreq, acked>>

\* ------------------------------------------------ GET / (routes/words.js)
\* words.js lines 67-77: words.map(...), with the defaults of ||
wordsWithMapDefaults(user, words) ==
  [i \in 1..Len(words) |->
     LET progress == mapGet(user, words[i])
     IN  [wordId |-> words[i], ease |-> OrDefault(progress.ease, DefaultEase),
          interval |-> OrDefault(progress.interval, 0),
          reviewCount |-> OrDefault(progress.reviewCount, 0),
          lastReviewed |-> OrNull(progress.lastReviewed),
          nextReview |-> OrNull(progress.nextReview)]]

\* the page requested is the default one: no filter, by portuguese, page 1
PageRequests == {[kind |-> "page", userId |-> u] : u \in ListUsers}

\* words.js lines 12-57: a page request arrives and Word.find(filter) is called
PageStart(r, request) ==
  /\ Accept(r)
  /\ pc' = [pc EXCEPT ![r] = "pageFind"]
  /\ req' = [req EXCEPT ![r] = request]
  /\ UNCHANGED <<db, catalog, now, doc, prev, updated, answer, stale, acked>>

\* words.js lines 57-64: the page of words resolves and User.findById is called
PageFound(r) ==
  /\ pc[r] = "pageFind" /\ req[r].kind = "page"
  /\ doc' = [doc EXCEPT ![r] = [words |-> WordFind]]
  /\ Goto(r, "pageFindUser")
  /\ UNCHANGED <<db, catalog, now, prev, updated, nreq, stale, acked>>

\* words.js lines 64-80: User.findById resolves (it throws on a malformed
\* id), the words are merged and Word.countDocuments is called
PageFindUser(r) ==
  /\ pc[r] = "pageFindUser" /\ req[r].kind = "page"
  /\ IF ~isValidObjectId(req[r].userId) THEN Respond(r, 500)
     ELSE /\ doc' = [doc EXCEPT ![r] =
                       [words |-> wordsWithMapDefaults(findUser(req[r].userId),
                                                       doc[r].words)]]
          /\ Goto(r, "pageCount")
          /\ UNCHANGED <<prev, updated>>
  /\ stale' = [stale EXCEPT ![r] = FALSE]
  /\ UNCHANGED <<db, catalog, now, nreq, acked>>

\* words.js lines 80-96: the count resolves and the page is sent
PageRespond(r) ==
  /\ pc[r] = "pageCount" /\ req[r].kind = "page"
  /\ pc' = [pc EXCEPT ![r] = "idle"]
  /\ answer' = [kind |-> "page", status |-> 200, body |-> doc[r].words,
                total |-> Cardinality(catalog)]
  /\ req' = [req EXCEPT ![r] = NoReq]
  /\ doc' = [doc EXCEPT ![r] = NoDoc]
  /\ stale' = [stale EXCEPT ![r] = FALSE]
  /\ UNCHANGED <<db, catalog, now, prev, updated, nreq, acked>>

\* ------------------------------------------- reads next to reviews
\* the histories replayed for the reads: none, and one that leaves w1 with
\* nextReview one day and w2 with nextReview two days after time 0
ListSeedHistories ==
  { <<>>,
    << <<"w1", "hard">>, <<"w2", "easy">>, <<"w2", "medium">> >> }

ListSeedDocuments ==
  UNION { Replay([progress |-> NoProgress], h) : h \in ListSeedHistories }

\* the reads start when the replayed reviews were made, or two days later
ListStartTimes == {0, 2 * DaySec}

InitLists ==
  /\ db \in [Users -> ListSeedDocuments]
  /\ catalog = {"w1", "w2"}
  /\ now \in ListStartTimes
  /\ pc = [r \in Reqs |-> "idle"]
  /\ req = [r \in Reqs |-> NoReq]
  /\ doc = [r \in Reqs |-> NoDoc]
  /\ prev = [r \in Reqs |-> NoEntry]
  /\ updated = [r \in Reqs |-> NoEntry]
  /\ answer = NoAnswer
  /\ nreq = 0
  /\ stale = [r \in Reqs |-> FALSE]
  /\ acked = [u \in Users |-> {}]

NextLists ==
  \/ \E r \in Reqs, request \in ReviewRequests : ReviewStart(r, request)
  \/ \E r \in Reqs : ReviewValidate(r)
  \/ \E r \in Reqs : ReviewFindUser(r)
  \/ \E r \in Reqs : ReviewCompute(r)
  \/ \E r \in Reqs : ReviewSaved(r)
  \/ \E r \in Reqs : ReviewSaveFailed(r)
  \/ \E r \in Reqs, request \in DueRequests : DueStart(r, request)
  \/ \E r \in Reqs : DueFindUser(r)
  \/ \E r \in Reqs : DueRespond(r)
  \/ \E r \in Reqs, request \in FlashcardsRequests : FlashcardsStart(r, request)
  \/ \E r \in Reqs : FlashcardsFindUser(r)
  \/ \E r \in Reqs : FlashcardsRespond(r)
  \/ \E r \in Reqs, request \in WordsRequests : WordsStart(r, request)
  \/ \E r \in Reqs : WordsFound(r)
  \/ \E r \in Reqs : WordsRespond(r)
  \/ \E r \in Reqs, request \in PageRequests : PageStart(r, request)
  \/ \E r \in Reqs : PageFound(r)
  \/ \E r \in Reqs : PageFindUser(r)
  \/ \E r \in Reqs : PageRespond(r)
  \/ Tick

SpecLists == InitLists /\ [][NextLists]_vars

\* --------------------------------------- DELETE /api/words/:id (server.js)
\* the ids a removal is asked for: a catalog word, an id that matches no
\* word, and a malformed one
DeleteIds == {"w1", "w3", "bad"}

DeleteRequests == {[kind |-> "delete", wordId |-> id] : id \in DeleteIds}

\* server.js lines 217-219: a removal arrives and Word.findByIdAndDelete is called
DeleteStart(r, request) ==
  /\ Accept(r)
  /\ pc' = [pc EXCEPT ![r] = "deleteFind"]
  /\ req' = [req EXCEPT ![r] = request]
  /\ UNCHANGED <<db, catalog, now, doc, prev, updated, answer, stale, acked>>

\* server.js lines 219-225: Word.findByIdAndDelete resolves (it throws on a
\* malformed id) and the handler answers; no user document is touched
DeleteDone(r) ==
  /\ pc[r] = "deleteFind" /\ req[r].kind = "delete"
  /\ IF ~isValidObjectId(req[r].wordId)
     THEN Respond(r, 500) /\ UNCHANGED catalog
     ELSE IF req[r].wordId \notin catalog
     THEN Respond(r, 404) /\ UNCHANGED catalog
     ELSE /\ catalog' = catalog \ {req[r].wordId}
          /\ Respond(r, 200)
  /\ UNCHANGED <<db, now, nreq, stale, acked>>

\* --------------------------------------------- DELETE /:id (routes/words.js)
RemoveRequests == {[kind |-> "remove", wordId |-> id] : id \in DeleteIds}

\* { $unset: { 'progress.words.map.<id>': 1 } } on one document
unsetMapEntry(user, id) ==
  IF user.progress = NoProgress THEN user
  ELSE [user EXCEPT !.progress.map =
          [k \in DOMAIN @ \ {id} |-> @[k]]]

\* User.updateMany(...): every stored document is updated in place
updateMany(id) == [u \in Users |-> unsetMapEntry(db[u], id)]

\* words.js lines 236-238: a removal arrives and Word.findByIdAndDelete is called
RemoveStart(r, request) ==
  /\ Accept(r)
  /\ pc' = [pc EXCEPT ![r] = "removeFind"]
  /\ req' = [req EXCEPT ![r] = request]
  /\ UNCHANGED <<db, catalog, now, doc, prev, updated, answer, stale, acked>>

\* words.js lines 238-247 and 250-254: Word.findByIdAndDelete resolves (a
\* malformed id is answered 404 by the catch) and User.updateMany is called
RemoveFound(r) ==
  /\ pc[r] = "removeFind" /\ req[r].kind = "remove"
  /\ IF ~isValidObjectId(req[r].wordId) \/ req[r].wordId \notin catalog
     THEN Respond(r, 404) /\ UNCHANGED catalog
     ELSE /\ catalog' = catalog \ {req[r].wordId}
          /\ Goto(r, "removeUnset")
          /\ UNCHANGED <<doc, prev, updated>>
  /\ UNCHANGED <<db, now, nreq, stale, acked>>

\* words.js lines 244-249: the update of the users resolves and 200 is sent
RemoveUnset(r) ==
  /\ pc[r] = "removeUnset" /\ req[r].kind = "remove"
  /\ db' = updateMany(req[r].wordId)
  /\ stale' = [q \in Reqs |-> IF q # r /\ pc[q] \in LoadedAt
                              THEN TRUE ELSE stale[q]]
  /\ Respond(r, 200)
  /\ UNCHANGED <<catalog, now, nreq, acked>>

\* words.js lines 250-255: the update of the users fails and 500 is sent
RemoveUnsetFailed(r) ==
  /\ pc[r] = "removeUnset" /\ req[r].kind = "remove"
  /\ Respond(r, 500)
  /\ UNCHANGED <<db, catalog, now, nreq, stale, acked>>

NextCatalog ==
  \/ \E r \in Reqs, request \in ReviewRequests : ReviewStart(r, request)
  \/ \E r \in Reqs : ReviewValidate(r)
  \/ \E r \in Reqs : ReviewFindUser(r)
  \/ \E r \in Reqs : ReviewCompute(r)
  \/ \E r \in Reqs : ReviewSaved(r)
  \/ \E r \in Reqs : ReviewSaveFailed(r)
  \/ \E r \in Reqs, request \in DeleteRequests : DeleteStart(r, request)
  \/ \E r \in Reqs : DeleteDone(r)
  \/ \E r \in Reqs, request \in RemoveRequests : RemoveStart(r, request)
  \/ \E r \in Reqs : RemoveFound(r)
  \/ \E r \in Reqs : RemoveUnset(r)
  \/ \E r \in Reqs : RemoveUnsetFailed(r)
  \/ Tick

SpecCatalog == InitLists /\ [][NextCatalog]_vars

\* ------------------------------------- one review of any stored entry
\* the eases an entry can hold: 1.3 to 3.0 in steps of 0.05
PriorEases == {e \in MinEase..MaxEase : e % 5 = 0}

\* the entries w1 can hold when the review arrives
PriorEntries ==
  {[ease |-> e, interval |-> i, reviewCount |-> 1, lastReviewed |-> 0,
    nextReview |-> i * DaySec] : e \in PriorEases, i \in 1..MaxPriorInterval}

\* the user has no progress, or has w1 stored with one of these entries
PriorDocuments ==
  {[progress |-> NoProgress]}
  \cup {setProgressEntry([progress |-> NoProgress], "w1", p) : p \in PriorEntries}

\* one review request has arrived; the user's record is any of the above
InitSchedule ==
  /\ db \in [Users -> PriorDocuments]
  /\ catalog = {"w1", "w2"}
  /\ now = 0
  /\ pc = [r \in Reqs |-> IF r = 1 THEN "validate" ELSE "idle"]
  /\ \E request \in ReviewRequests :
       req = [r \in Reqs |-> IF r = 1 THEN request ELSE NoReq]
  /\ doc = [r \in Reqs |-> NoDoc]
  /\ prev = [r \in Reqs |-> NoEntry]
  /\ updated = [r \in Reqs |-> NoEntry]
  /\ answer = NoAnswer
  /\ nreq = 1
  /\ stale = [r \in Reqs |-> FALSE]
  /\ acked = [u \in Users |-> {}]

NextSchedule ==
  \/ \E r \in Reqs : ReviewValidate(r)
  \/ \E r \in Reqs : ReviewFindUser(r)
  \/ \E r \in Reqs : ReviewCompute(r)
  \/ \E r \in Reqs : ReviewSaved(r)
  \/ \E r \in Reqs : ReviewSaveFailed(r)

SpecSchedule == InitSchedule /\ [][NextSchedule]_vars

\* ------------------------- getProgressEntry and setProgressEntry alone
\* stored entries: reviewed ten days apart, without any field, mastered,
\* and reviewed once
EntryTenDays ==
  [ease |-> 280, interval |-> 10, reviewCount |-> 3, lastReviewed |-> 0,
   nextReview |-> 10 * DaySec]

EntryMastered ==
  [ease |-> 130, interval |-> 25, reviewCount |-> 5, lastReviewed |-> 0,
   nextReview |-> 25 * DaySec]

EntryOnce ==
  [ease |-> 265, interval |-> 1, reviewCount |-> 1, lastReviewed |-> 0,
   nextReview |-> DaySec]

\* the keyed mappings, history arrays and id arrays a stored record can hold
CodecWords ==
  { <<>>, Put(<<>>, "w1", EntryTenDays), Put(<<>>, "w1", EmptyObject),
    Put(<<>>, "w2", EntryMastered),
    Put(Put(<<>>, "w1", EntryOnce), "w2", EntryMastered) }

CodecHistories ==
  { <<>>, <<historyObj("w1", EntryTenDays)>>, <<historyObj("w1", EmptyObject)>>,
    <<historyObj("w2", EntryMastered), historyObj("w1", EntryOnce)>>,
    <<historyObj("w1", EntryMastered), historyObj("w2", EntryTenDays)>> }

CodecLists == { <<>>, <<"w1">>, <<"w2", "w1">> }

\* the user records the helpers are given: without progress, or with any of
\* the four structures absent or holding one of the values above
CodecRecords ==
  {[progress |-> NoProgress]}
  \cup
  { [progress |->
       LET full == [words |-> w, wordsHistory |-> h, mastered |-> m,
                    needsReview |-> n, map |-> <<>>]
       IN  [f \in present \cup {"map"} |-> full[f]]] :
      w \in CodecWords, h \in CodecHistories, m \in CodecLists,
      n \in CodecLists,
      present \in SUBSET {"words", "wordsHistory", "mastered", "needsReview"} }

\* the entries written
CodecEntries == {EntryTenDays, EntryMastered, EntryOnce, DefaultEntry}

\* a helper is about to be called with a record and a word id
InitCodec ==
  /\ db \in [Users -> {[progress |-> NoProgress]}]
  /\ catalog = {"w1", "w2"}
  /\ now = 0
  /\ pc = [r \in Reqs |-> IF r = 1 THEN "codec" ELSE "idle"]
  /\ \E w \in {"w1", "w2"} :
       req = [r \in Reqs |-> IF r = 1 THEN [kind |-> "codec", wordId |-> w]
                             ELSE NoReq]
  /\ \E user \in CodecRecords :
       doc = [r \in Reqs |-> IF r = 1 THEN user ELSE NoDoc]
  /\ prev = [r \in Reqs |-> NoEntry]
  /\ updated = [r \in Reqs |-> NoEntry]
  /\ answer = NoAnswer
  /\ nreq = 1
  /\ stale = [r \in Reqs |-> FALSE]
  /\ acked = [u \in Users |-> {}]

\* lines 39-76: getProgressEntry(user, wordId) is called; line 41 runs
\* ensureProgressStructure on the object it was given
CodecRead(r) ==
  /\ pc[r] \in {"codec", "written"}
  /\ prev' = [prev EXCEPT ![r] = getProgressEntry(doc[r], req[r].wordId)]
  /\ doc' = [doc EXCEPT ![r] = ensureProgressStructure(doc[r])]
  /\ pc' = [pc EXCEPT ![r] = IF pc[r] = "codec" THEN "read" ELSE "reread"]
  /\ UNCHANGED <<db, catalog, now, req, updated, answer, nreq, stale, acked>>

\* lines 78-122: the entry read is written back with setProgressEntry
CodecWriteBack(r) ==
  /\ pc[r] = "read"
  /\ doc' = [doc EXCEPT ![r] = setProgressEntry(doc[r], req[r].wordId, prev[r])]
  /\ updated' = [updated EXCEPT ![r] = prev[r]]
  /\ pc' = [pc EXCEPT ![r] = "written"]
  /\ UNCHANGED <<db, catalog, now, req, prev, answer, nreq, stale, acked>>

\* lines 78-122: setProgressEntry(user, wordId, entry) is called
CodecWrite(r, entry) ==
  /\ pc[r] = "codec"
  /\ doc' = [doc EXCEPT ![r] = setProgressEntry(doc[r], req[r].wordId, entry)]
  /\ updated' = [updated EXCEPT ![r] = entry]
  /\ pc' = [pc EXCEPT ![r] = "stored"]
  /\ UNCHANGED <<db, catalog, now, req, prev, answer, nreq, stale, acked>>

NextCodec ==
  \/ \E r \in Reqs : CodecRead(r)
  \/ \E r \in Reqs : CodecWriteBack(r)
  \/ \E r \in Reqs, entry \in CodecEntries : CodecWrite(r, entry)

SpecCodec == InitCodec /\ [][NextCodec]_vars

\* ---------------------------------------------- a run of reviews of one word
\* One user reviews one word again and again, one request at a time, with
\* easy or medium.  The word is w2, never reviewed, or w1, stored with any
\* of the prior entries.

\* the entry a review of this word would read from the stored record
storedEntry(u, wordId) == getProgressEntry(db[u], wordId)

GrowthRequests ==
  { [kind |-> "review", userId |-> u, wordId |-> w, difficulty |-> d] :
      u \in Users, w \in catalog, d \in {"easy", "medium"} }

\* lines 170-173: the next review of the word arrives once the previous one
\* has been answered
GrowthStart(r, request) ==
  /\ FreeSlot(r)
  /\ \A q \in Reqs : pc[q] = "idle"
  /\ storedEntry(request.userId, request.wordId).interval <= MaxPriorInterval
  /\ storedEntry(request.userId, request.wordId).reviewCount < MaxReviews
  /\ pc' = [pc EXCEPT ![r] = "validate"]
  /\ req' = [req EXCEPT ![r] = request]
  /\ UNCHANGED <<db, catalog, now, doc, prev, updated, answer, nreq, stale, acked>>

InitGrowth ==
  /\ \/ /\ catalog = {"w2"}
        /\ db = [u \in Users |-> [progress |-> NoProgress]]
     \/ /\ catalog = {"w1"}
        /\ db \in [Users -> PriorDocuments \ {[progress |-> NoProgress]}]
  /\ now = 0
  /\ pc = [r \in Reqs |-> "idle"]
  /\ req = [r \in Reqs |-> NoReq]
  /\ doc = [r \in Reqs |-> NoDoc]
  /\ prev = [r \in Reqs |-> NoEntry]
  /\ updated = [r \in Reqs |-> NoEntry]
  /\ answer = NoAnswer
  /\ nreq = 0
  /\ stale = [r \in Reqs |-> FALSE]
  /\ acked = [u \in Users |-> {}]

NextGrowth ==
  \/ \E r \in Reqs : \E request \in GrowthRequests : GrowthStart(r, request)
  \/ \E r \in Reqs : ReviewValidate(r)
  \/ \E r \in Reqs : ReviewFindUser(r)
  \/ \E r \in Reqs : ReviewCompute(r)
  \/ \E r \in Reqs : ReviewSaved(r)
  \/ \E r \in Reqs : ReviewSaveFailed(r)

SpecGrowth == InitGrowth /\ [][NextGrowth]_vars

\* ------------------------------------------------------------------ claims
InSeq(s, x) == \E i \in 1..Len(s) : s[i] = x

HasProgress(user) == user.progress # NoProgress

\* the documents that exist: the persisted ones and the ones handlers hold
\* between setProgressEntry and the end of the save
Documents ==
  {db[u] : u \in Users} \cup {doc[r] : r \in {q \in Reqs : pc[q] = "save"}}

C2_MembershipRule ==
  \A user \in Documents :
    HasProgress(user) =>
      \A w \in DOMAIN user.progress.words :
        LET i == user.progress.words[w].interval
        IN  /\ InSeq(user.progress.mastered, w) <=> i >= 21
            /\ InSeq(user.progress.needsReview, w) <=> i < 7
            /\ (7 <= i /\ i < 21) =>
                 /\ ~InSeq(user.progress.mastered, w)
                 /\ ~InSeq(user.progress.needsReview, w)

\* a persisted record holds a mastered word and a needs-review word
C2_Witness ==
  \E u \in Users :
    /\ HasProgress(db[u])
    /\ InSeq(db[u].progress.mastered, "w1")
    /\ InSeq(db[u].progress.needsReview, "w2")

\* C3: mastered and needsReview are disjoint in every user record.
C3_Disjoint ==
  \A user \in Documents :
    HasProgress(user) =>
      ~ \E w \in WordIds :
          InSeq(user.progress.mastered, w) /\ InSeq(user.progress.needsReview, w)

\* a mastered word has been reviewed hard and is persisted in needsReview
C3_Witness ==
  \E u \in Users :
    /\ HasProgress(db[u])
    /\ "w1" \in DOMAIN db[u].progress.words
    /\ db[u].progress.words["w1"].reviewCount = 5
    /\ db[u].progress.words["w1"].interval = 1
    /\ InSeq(db[u].progress.needsReview, "w1")

\* C4: the history log holds at most one tuple per wordId, and for every
\* wordId of the keyed mapping that tuple exists and carries the same ease,
\* interval, reviewCount, lastReviewed and nextReview.
C4_LogMatchesMapping ==
  \A user \in Documents :
    HasProgress(user) =>
      LET h == user.progress.wordsHistory
      IN  /\ \A i, j \in 1..Len(h) : h[i].wordId = h[j].wordId => i = j
          /\ \A w \in DOMAIN user.progress.words :
               \E i \in 1..Len(h) : h[i] = historyObj(w, user.progress.words[w])

\* a persisted log holds two words, one of them reviewed again after the seed
C4_Witness ==
  \E u \in Users :
    /\ HasProgress(db[u])
    /\ Len(db[u].progress.wordsHistory) = 2
    /\ db[u].progress.wordsHistory[1].wordId = "w1"
    /\ db[u].progress.wordsHistory[1].reviewCount = 4

\* C5 (as claimed): every operation that writes a per-word entry, the review
\* and the progress update PUT /api/words/:id, leaves the entry it wrote in
\* agreement with the history log and the membership sets.
C5_EveryWriteReconciles ==
  \A u \in Users :
    HasProgress(db[u]) =>
      LET p == db[u].progress
      IN  \A w \in (DOMAIN p.words) \cup (DOMAIN p.map) :
            LET e == IF w \in DOMAIN p.map THEN p.map[w] ELSE p.words[w]
            IN  /\ \E i \in 1..Len(p.wordsHistory) :
                     p.wordsHistory[i] = historyObj(w, e)
                /\ InSeq(p.mastered, w) <=> e.interval >= 21
                /\ InSeq(p.needsReview, w) <=> e.interval < 7

\* C6 (as claimed): when reviews of the same user interleave, each review
\* that is committed leaves every acknowledged review of that user in the
\* persisted record: its word is in the keyed mapping and the log, with the
\* membership its interval implies.
WordPresent(user, w) ==
  /\ HasProgress(user)
  /\ w \in DOMAIN user.progress.words
  /\ \E i \in 1..Len(user.progress.wordsHistory) :
       user.progress.wordsHistory[i].wordId = w
  /\ InSeq(user.progress.mastered, w) <=> user.progress.words[w].interval >= 21
  /\ InSeq(user.progress.needsReview, w) <=> user.progress.words[w].interval < 7

\* the step in which the review of slot r is committed and answered 200
ReviewCommits(r) ==
  /\ pc[r] = "save" /\ req[r].kind = "review"
  /\ pc'[r] = "idle" /\ answer'.status = 200

C8_InvalidOutcomeRejected ==
  [][\A r \in Reqs :
       (/\ req[r].kind = "review"
        /\ req[r].difficulty \notin {"easy", "medium", "hard", Missing}
        /\ pc'[r] # pc[r]) =>
         /\ db' = db
         /\ pc'[r] = "idle" => answer'.status >= 400]_vars

\* a review whose user or word does not resolve to an existing one
Unresolved(request) ==
  request.userId \notin Users \/ request.wordId \notin catalog

\* a review the validation of lines 175-180 turns away
IllFormed(request) ==
  \/ request.wordId = Missing \/ request.difficulty = Missing
  \/ request.userId \notin ObjectIds \/ request.wordId \notin ObjectIds

\* the step in which the handler of slot r answers
Answers(r) == pc[r] # "idle" /\ pc'[r] = "idle"

\* C9 (as claimed): a review whose userId or wordId (both given) does not
\* resolve to an existing user or item is answered 404 and changes no record.
C9_UnresolvedIsNotFound ==
  [][\A r \in Reqs :
       (/\ req[r].kind = "review" /\ Unresolved(req[r])
        /\ req[r].wordId # Missing /\ req[r].difficulty # Missing
        /\ Answers(r)) =>
         /\ answer'.status = 404
         /\ db' = db]_vars

\* C9 (amended): such a review changes no record at any of its steps and
\* fails: with 400 when wordId or difficulty is missing or an id is
\* malformed, with 404 otherwise.
C9_UnresolvedFails ==
  [][\A r \in Reqs :
       (/\ req[r].kind = "review" /\ Unresolved(req[r])
        /\ pc'[r] # pc[r]) =>
         /\ db' = db
         /\ pc'[r] = "idle" =>
              answer'.status = IF IllFormed(req[r]) THEN 400 ELSE 404]_vars

\* a review has been answered 404
C9_Witness == answer = [kind |-> "review", status |-> 404]

\* what a persisted record holds for a word: keyed entry, log tuples (with
\* their positions) and memberships
KeyedEntry(user, w) ==
  IF HasProgress(user) /\ w \in DOMAIN user.progress.words
  THEN user.progress.words[w] ELSE NoEntry

LogTuples(user, w) ==
  IF HasProgress(user)
  THEN {<<i, user.progress.wordsHistory[i]>> :
          i \in {j \in 1..Len(user.progress.wordsHistory) :
                   user.progress.wordsHistory[j].wordId = w}}
  ELSE {}

Memberships(user, w) ==
  IF HasProgress(user)
  THEN <<InSeq(user.progress.mastered, w), InSeq(user.progress.needsReview, w)>>
  ELSE <<FALSE, FALSE>>

\* the three parts agree for the word
Reconciled(user, w) ==
  IF KeyedEntry(user, w) = NoEntry
  THEN LogTuples(user, w) = {} /\ Memberships(user, w) = <<FALSE, FALSE>>
  ELSE /\ \E t \in LogTuples(user, w) :
            t[2] = historyObj(w, KeyedEntry(user, w))
       /\ Memberships(user, w) = <<KeyedEntry(user, w).interval >= 21,
                                   KeyedEntry(user, w).interval < 7>>

ResolvedNextReview(user, w) ==
  IF KeyedEntry(user, w) # NoEntry THEN KeyedEntry(user, w).nextReview
  ELSE IF LogTuples(user, w) # {}
  THEN LET first == CHOOSE t \in LogTuples(user, w) :
                      \A o \in LogTuples(user, w) : t[1] <= o[1]
       IN  first[2].nextReview
  ELSE Null

\* the step in which the due query of slot r answers 200 with its list
DueAnswers(r) ==
  /\ req[r].kind = "due" /\ Answers(r) /\ answer'.status = 200

\* the word ids of a list
ListedIds(body) == {body[i].wordId : i \in 1..Len(body)}

\* C11: a due query returns a catalog item iff the nextReview of the entry
\* resolved for it in the user record is absent or at most the query time;
\* a word without an entry is returned at every time.
C11_DueIffAbsentOrPast ==
  [][\A r \in Reqs :
       DueAnswers(r) =>
         /\ ListedIds(answer'.body) \subseteq catalog
         /\ \A w \in catalog :
              w \in ListedIds(answer'.body) <=>
                (\/ ResolvedNextReview(doc[r], w) = Null
                 \/ ResolvedNextReview(doc[r], w) <= now)]_vars

\* a due query has returned one catalog word and held back the other
C11_Witness ==
  /\ answer.kind = "due" /\ answer.status = 200
  /\ Len(answer.body) = 1
  /\ Cardinality(catalog) = 2

\* the step in which a list-vocabulary read of slot r answers 200
ListAnswers(r) ==
  /\ req[r].kind \in {"flashcards", "words", "page"}
  /\ req[r].userId \in Users
  /\ Answers(r) /\ answer'.status = 200

\* what a row of a list reports as progress
Reported(row) ==
  [ease |-> row.ease, interval |-> row.interval,
   reviewCount |-> row.reviewCount, lastReviewed |-> row.lastReviewed,
   nextReview |-> row.nextReview]

\* C12 (as claimed): once a review of w by u is saved, a list-vocabulary read
\* for u (GET /api/flashcards, GET /api/words, GET / of routes/words.js),
\* made with no save committed since it loaded the user, reports for w
\* exactly the entry the review wrote to the keyed mapping.
C12_ListsReportTheReview ==
  [][\A r \in Reqs :
       (ListAnswers(r) /\ ~stale[r]) =>
         \A i \in 1..Len(answer'.body) :
           LET w == answer'.body[i].wordId
               u == req[r].userId
           IN  (w \in acked[u] /\ KeyedEntry(db[u], w) # NoEntry) =>
                 Reported(answer'.body[i]) = KeyedEntry(db[u], w)]_vars

\* a word id occurs nowhere in a user's progress
Purged(user, w) ==
  /\ KeyedEntry(user, w) = NoEntry
  /\ LogTuples(user, w) = {}
  /\ Memberships(user, w) = <<FALSE, FALSE>>

\* C13 (as claimed): when the removal of a vocabulary item is answered 200,
\* its id is absent from every user's keyed mapping, history log, mastered
\* set and needsReview set.
C13_RemovalPurgesProgress ==
  [][\A r \in Reqs :
       (/\ req[r].kind \in {"delete", "remove"}
        /\ Answers(r) /\ answer'.status = 200) =>
         \A u \in Users : Purged(db'[u], req[r].wordId)]_vars

\* the reviewCount the persisted record stores for a word; none counts as 0
StoredCount(user, w) ==
  IF KeyedEntry(user, w) = NoEntry THEN 0 ELSE KeyedEntry(user, w).reviewCount

CeilOfProduct(interval, ease) ==
  LET exact == (interval * ease + 99) \div 100
  IN  IF (interval * ease) % 100 = 0 /\ ease # 300
      THEN {exact, exact + 1} ELSE {exact}

\* the review of slot r has computed its entry and written it to its document
Computed(r, difficulty) ==
  pc[r] = "save" /\ req[r].kind = "review" /\ req[r].difficulty = difficulty

\* C17: for easy the new ease is min(3.0, ease + 0.15); the new interval is
\* 1 for a prior interval 0 and otherwise ceil(prior interval * new ease),
\* with the new ease; {2.5, 0} gives {2.65, 1} and {2.5, 10} gives 2.65 and
\* 27, after which the word is in mastered.
C17_EasyRule ==
  \A r \in Reqs :
    Computed(r, "easy") =>
      LET ease == IF prev[r].ease + 15 < 300 THEN prev[r].ease + 15 ELSE 300
      IN  /\ updated[r].ease = ease
          /\ prev[r].interval = 0 => updated[r].interval = 1
          /\ prev[r].interval # 0 =>
               updated[r].interval \in CeilOfProduct(prev[r].interval, ease)
          /\ (prev[r].ease = 250 /\ prev[r].interval = 0) =>
               (updated[r].ease = 265 /\ updated[r].interval = 1)
          /\ (prev[r].ease = 250 /\ prev[r].interval = 10) =>
               /\ updated[r].ease = 265 /\ updated[r].interval = 27
               /\ InSeq(doc[r].progress.mastered, req[r].wordId)

\* an easy review of an entry {2.5, 10} has computed interval 27
C17_Witness ==
  \E r \in Reqs :
    /\ Computed(r, "easy")
    /\ prev[r].ease = 250 /\ prev[r].interval = 10
    /\ updated[r].interval = 27

\* C18: for hard, whatever the prior entry, the new ease is
\* max(1.3, ease - 0.2) and the new interval is 1, and after the write the
\* word is in needsReview and not in mastered; {1.35, 5} gives {1.3, 1}.
C18_HardRule ==
  \A r \in Reqs :
    Computed(r, "hard") =>
      /\ updated[r].ease =
           (IF prev[r].ease - 20 > 130 THEN prev[r].ease - 20 ELSE 130)
      /\ updated[r].interval = 1
      /\ InSeq(doc[r].progress.needsReview, req[r].wordId)
      /\ ~InSeq(doc[r].progress.mastered, req[r].wordId)
      /\ (prev[r].ease = 135 /\ prev[r].interval = 5) =>
           (updated[r].ease = 130 /\ updated[r].interval = 1)

\* a hard review of a word stored as mastered has been computed
C18_Witness ==
  \E r \in Reqs :
    /\ Computed(r, "hard")
    /\ prev[r].interval >= 21
    /\ HasProgress(db[req[r].userId])
    /\ InSeq(db[req[r].userId].progress.mastered, req[r].wordId)

\* C19: for medium the new ease is max(1.3, ease - 0.05) and the new
\* interval is 1 for a prior interval 0 and otherwise
\* ceil(prior interval * 1.2), whatever the ease.
C19_MediumRule ==
  \A r \in Reqs :
    Computed(r, "medium") =>
      /\ updated[r].ease =
           (IF prev[r].ease - 5 > 130 THEN prev[r].ease - 5 ELSE 130)
      /\ updated[r].interval =
           (IF prev[r].interval = 0 THEN 1
            ELSE (prev[r].interval * 12 + 9) \div 10)

\* a medium review of an entry {3.0, 10} has computed interval 12
C19_Witness ==
  \E r \in Reqs :
    /\ Computed(r, "medium")
    /\ prev[r].ease = 300 /\ prev[r].interval = 10
    /\ updated[r].interval = 12

\* C15: the list a due query returns is a subsequence of the catalog listing
\* (by portuguese): its items are catalog items in catalog order, whatever
\* their due dates.
C15_DueInCatalogOrder ==
  [][\A r \in Reqs :
       DueAnswers(r) =>
         /\ ListedIds(answer'.body) \subseteq catalog
         /\ \A i, j \in 1..Len(answer'.body) :
              i < j => portuguese[answer'.body[i].wordId]
                         < portuguese[answer'.body[j].wordId]]_vars

\* a due query has returned two words, the one due later first
C15_Witness ==
  /\ answer.kind = "due" /\ answer.status = 200
  /\ Len(answer.body) = 2
  /\ answer.body[1].nextReview > answer.body[2].nextReview
  /\ answer.body[2].nextReview # Null

\* the entries a persisted record stores: those of the keyed mapping and the
\* tuples of the history log
StoredEntries(user) ==
  IF HasProgress(user)
  THEN {user.progress.words[w] : w \in DOMAIN user.progress.words}
       \cup {user.progress.wordsHistory[i] :
               i \in 1..Len(user.progress.wordsHistory)}
  ELSE {}

Computes(r) ==
  pc[r] = "findWord" /\ req[r].kind = "review" /\ pc'[r] = "save"

\* C20: every review sets lastReviewed to the time of the review and
\* nextReview to that time plus the new interval in whole days, so every
\* stored entry has nextReview - lastReviewed = interval days.
C20_NextReviewIsIntervalDaysLater ==
  /\ [](\A u \in Users : \A e \in StoredEntries(db[u]) :
          e.nextReview - e.lastReviewed = e.interval * 86400)
  /\ [][\A r \in Reqs :
          Computes(r) =>
            /\ updated'[r].lastReviewed = now
            /\ updated'[r].nextReview = now + updated'[r].interval * 86400]_vars

\* a review made on the second day is stored with an interval of several days
C20_Witness ==
  \E u \in Users : \E e \in StoredEntries(db[u]) :
    /\ e.lastReviewed = 86400
    /\ e.interval > 1
    /\ e.nextReview = 86400 + e.interval * 86400

\* what a user record holds, an absent structure read as an empty one
View(user) ==
  LET has(f) == user.progress # NoProgress /\ f \in DOMAIN user.progress
  IN  [words        |-> IF has("words") THEN user.progress.words ELSE <<>>,
       wordsHistory |-> IF has("wordsHistory") THEN user.progress.wordsHistory
                        ELSE <<>>,
       mastered     |-> IF has("mastered") THEN user.progress.mastered ELSE <<>>,
       needsReview  |-> IF has("needsReview") THEN user.progress.needsReview
                        ELSE <<>>]

\* the positions of the tuples the history log holds for a word
TuplesAt(user, w) ==
  {i \in 1..Len(View(user).wordsHistory) : View(user).wordsHistory[i].wordId = w}

\* the step in which getProgressEntry is called by slot r
Reads(r) == pc[r] \in {"codec", "written"} /\ pc'[r] \in {"read", "reread"}

\* C21: getProgressEntry never fails and resolves in this order: the entry
\* of the keyed mapping, as it is, even when the log holds a different tuple
\* for the word; else the first log tuple with ease defaulting to 2.5,
\* interval to 0 and reviewCount to 0; else {2.5, 0, 0, absent, absent}.
C21_ResolutionOrder ==
  [][\A r \in Reqs :
       Reads(r) =>
         LET w == req[r].wordId
             v == View(doc[r])
         IN  IF w \in DOMAIN v.words THEN prev'[r] = v.words[w]
             ELSE IF TuplesAt(doc[r], w) # {}
             THEN LET t == v.wordsHistory[CHOOSE i \in TuplesAt(doc[r], w) :
                                            \A j \in TuplesAt(doc[r], w) : i <= j]
                  IN  /\ prev'[r].ease = (IF t.ease = Undef THEN 250 ELSE t.ease)
                      /\ prev'[r].interval =
                           (IF t.interval = Undef THEN 0 ELSE t.interval)
                      /\ prev'[r].reviewCount =
                           (IF t.reviewCount = Undef THEN 0 ELSE t.reviewCount)
                      /\ prev'[r].lastReviewed = t.lastReviewed
                      /\ prev'[r].nextReview = t.nextReview
             ELSE prev'[r] = [ease |-> 250, interval |-> 0, reviewCount |-> 0,
                              lastReviewed |-> Null, nextReview |-> Null]]_vars

\* the keyed entry has been returned for a word whose log tuple differs
C21_Witness ==
  \E r \in Reqs :
    /\ pc[r] = "read"
    /\ req[r].wordId \in DOMAIN doc[r].progress.words
    /\ prev[r] = doc[r].progress.words[req[r].wordId]
    /\ \E i \in TuplesAt(doc[r], req[r].wordId) :
         doc[r].progress.wordsHistory[i].interval # prev[r].interval

\* C22 (as claimed): a call of getProgressEntry leaves the user record it is
\* given exactly as it was, absent structures included.
C22_ReadLeavesRecordAlone ==
  [][\A r \in Reqs : Reads(r) => doc'[r] = doc[r]]_vars

\* the step in which setProgressEntry is called by slot r
Writes(r) == pc[r] \in {"codec", "read"} /\ pc'[r] \in {"stored", "written"}

\* C23: setProgressEntry changes only what belongs to the word written: for
\* every other id the keyed entry, the log tuples and their positions, and
\* the membership in mastered and needsReview are as before.
C23_WriteTouchesOneWord ==
  [][\A r \in Reqs :
       Writes(r) =>
         \A o \in WordIds \ {req[r].wordId} :
           LET before == View(doc[r])
               after  == View(doc'[r])
           IN  /\ (o \in DOMAIN after.words) <=> (o \in DOMAIN before.words)
               /\ o \in DOMAIN before.words => after.words[o] = before.words[o]
               /\ TuplesAt(doc'[r], o) = TuplesAt(doc[r], o)
               /\ \A i \in TuplesAt(doc[r], o) :
                    after.wordsHistory[i] = before.wordsHistory[i]
               /\ InSeq(after.mastered, o) <=> InSeq(before.mastered, o)
               /\ InSeq(after.needsReview, o) <=> InSeq(before.needsReview, o)]_vars

\* a word has been written to a record in which the other word has a keyed
\* entry, a log tuple and a membership, and a list has lost the written word
C23_Witness ==
  \E r \in Reqs :
    /\ pc[r] = "stored"
    /\ \E o \in WordIds \ {req[r].wordId} :
         /\ o \in DOMAIN doc[r].progress.words
         /\ TuplesAt(doc[r], o) # {}
         /\ InSeq(doc[r].progress.mastered, o)
    /\ updated[r].interval < 21
    /\ ~InSeq(doc[r].progress.mastered, req[r].wordId)

\* C24: a write replaces the word's log tuple at its index and keeps the
\* length of the log when there is one, and otherwise appends the new tuple
\* at the end, the log growing by one; the other tuples keep their order.
C24_LogUpsert ==
  [][\A r \in Reqs :
       Writes(r) =>
         LET w      == req[r].wordId
             before == View(doc[r]).wordsHistory
             after  == View(doc'[r]).wordsHistory
             tuple  == [wordId |-> w, ease |-> updated'[r].ease,
                        interval |-> updated'[r].interval,
                        reviewCount |-> updated'[r].reviewCount,
                        lastReviewed |-> updated'[r].lastReviewed,
                        nextReview |-> updated'[r].nextReview]
         IN  IF TuplesAt(doc[r], w) # {}
             THEN LET idx == CHOOSE i \in TuplesAt(doc[r], w) :
                               \A j \in TuplesAt(doc[r], w) : i <= j
                  IN  /\ Len(after) = Len(before)
                      /\ after[idx] = tuple
                      /\ \A i \in 1..Len(before) : i # idx => after[i] = before[i]
             ELSE /\ Len(after) = Len(before) + 1
                  /\ after[Len(after)] = tuple
                  /\ \A i \in 1..Len(before) : after[i] = before[i]]_vars

\* a tuple has been replaced at the second position of a log of two
C24_Witness ==
  \E r \in Reqs :
    /\ pc[r] = "stored"
    /\ Len(doc[r].progress.wordsHistory) = 2
    /\ doc[r].progress.wordsHistory[2] = historyObj(req[r].wordId, updated[r])
    /\ doc[r].progress.wordsHistory[1].wordId # req[r].wordId
    /\ updated[r] = DefaultEntry

\* C25: writing the entry getProgressEntry returns back with
\* setProgressEntry and reading it again yields the entry of the first read.
C25_NormalizeIdempotent ==
  \A r \in Reqs : pc[r] = "reread" => prev[r] = updated[r]

\* the entry read from the history log alone, with defaults filled in, was
\* written back and read again
C25_Witness ==
  \E r \in Reqs :
    /\ pc[r] = "reread"
    /\ prev[r].ease = 250 /\ prev[r].interval = 0
    /\ prev[r].lastReviewed = Undef
    /\ TuplesAt(doc[r], req[r].wordId) # {}
    /\ Len(doc[r].progress.wordsHistory) = 1

\* C26: no step of GET /api/flashcards or GET /api/flashcards/due changes a
\* persisted user record; no entry is created for a never-reviewed word.
C26_ReadsChangeNothing ==
  [][\A r \in Reqs :
       (req[r].kind \in {"due", "flashcards"} /\ pc'[r] # pc[r]) =>
         db' = db]_vars

\* a due query has listed a never-reviewed word with the defaults, and the
\* user's stored record still holds nothing for that word
C26_Witness ==
  /\ answer.kind = "due" /\ answer.status = 200
  /\ \E i \in 1..Len(answer.body) : \E u \in Users :
       /\ answer.body[i].reviewCount = 0
       /\ answer.body[i].nextReview = Null
       /\ KeyedEntry(db[u], answer.body[i].wordId) = NoEntry
       /\ LogTuples(db[u], answer.body[i].wordId) = {}

\* C27: a word reviewed at time t with resulting interval n is not in the
\* due list read at a time now with t <= now < t + n days and is in it at
\* every now >= t + n days, for as long as that review is the latest.
C27_DueFromNextReviewOn ==
  [][\A r \in Reqs :
       DueAnswers(r) =>
         \A w \in catalog :
           LET e == KeyedEntry(doc[r], w)
           IN  (e # NoEntry /\ e.lastReviewed <= now) =>
                 (w \in ListedIds(answer'.body)
                    <=> now >= e.lastReviewed + e.interval * 86400)]_vars

\* a due query made exactly one day after a review with interval 1 has
\* listed the word
C27_Witness ==
  /\ answer.kind = "due" /\ answer.status = 200
  /\ now = 86400
  /\ \E i \in 1..Len(answer.body) :
       /\ answer.body[i].interval = 1
       /\ answer.body[i].lastReviewed = 0
       /\ answer.body[i].nextReview = 86400

\* C28: no single review moves a word from needsReview to mastered: when
\* the interval the review read is < 7 and the ease is <= 3.0, the interval
\* it computes is < 21 and the word is not in mastered after the write.
C28_NoJumpToMastered ==
  \A r \in Reqs :
    (pc[r] = "save" /\ req[r].kind = "review"
       /\ prev[r].interval < NeedsReviewDays /\ prev[r].ease <= MaxEase) =>
      /\ updated[r].interval < MasteredDays
      /\ ~InSeq(doc[r].progress.mastered, req[r].wordId)

\* an easy review of a word stored in needsReview with interval 6 has
\* computed interval 18: the word has left needsReview and is in neither set
C28_Witness ==
  \E r \in Reqs :
    /\ Computed(r, "easy")
    /\ prev[r].interval = 6 /\ updated[r].interval = 18
    /\ HasProgress(db[req[r].userId])
    /\ InSeq(db[req[r].userId].progress.needsReview, req[r].wordId)
    /\ ~InSeq(doc[r].progress.needsReview, req[r].wordId)
    /\ ~InSeq(doc[r].progress.mastered, req[r].wordId)

\* the entries of a never-reviewed word after 1, 2, 3 and 4 easy reviews
EasyRun ==
  <<[ease |-> 265, interval |-> 1], [ease |-> 280, interval |-> 3],
    [ease |-> 295, interval |-> 9], [ease |-> 300, interval |-> 27]>>

\* entry p is the one a word holds after k easy reviews and no other
IsEasyRun(p, k) ==
  /\ p.reviewCount = k
  /\ IF k = 0 THEN p.interval = 0 /\ p.ease = 250
     ELSE p.interval = EasyRun[k].interval /\ p.ease = EasyRun[k].ease

\* C29: for a prior interval >= 1 and ease in [1.3, 3.0] an easy or medium
\* review computes a strictly greater interval; a never-reviewed word that
\* receives only easy and medium reviews has interval >= 21 after at most
\* 12 reviews, and after exactly 4 (not 3) when all are easy.
C29_GrowthToMastered ==
  /\ \A r \in Reqs :
       (pc[r] = "save" /\ req[r].kind = "review"
          /\ req[r].difficulty \in {"easy", "medium"}
          /\ prev[r].interval >= 1
          /\ prev[r].ease >= 130 /\ prev[r].ease <= 300) =>
         updated[r].interval > prev[r].interval
  /\ \A u \in Users :
       storedEntry(u, "w2").reviewCount >= 12 =>
         /\ storedEntry(u, "w2").interval >= 21
         /\ InSeq(db[u].progress.mastered, "w2")
  /\ \A r \in Reqs : \A k \in 0..3 :
       (Computed(r, "easy") /\ req[r].wordId = "w2" /\ IsEasyRun(prev[r], k)) =>
         /\ IsEasyRun(updated[r], k + 1)
         /\ (k + 1 < 4) => updated[r].interval < 21
         /\ (k + 1 = 4) => updated[r].interval >= 21

\* the never-reviewed word has been reviewed twelve times and its twelfth
\* review is the one that took it to interval 22 and into mastered
C29_Witness ==
  \E u \in Users :
    /\ catalog = {"w2"}
    /\ storedEntry(u, "w2").reviewCount = 12
    /\ storedEntry(u, "w2").interval = 22
    /\ InSeq(db[u].progress.mastered, "w2")

\* no id occurs twice in the array
NoDuplicates(s) == \A i, j \in 1..Len(s) : s[i] = s[j] => i = j

\* C30: in every record reached by reviews from an empty one, mastered and
\* needsReview hold no id twice and only ids that have an entry in the keyed
\* mapping; a never-reviewed word, whose default interval is 0, is in neither.
C30_MembershipWellFormed ==
  \A user \in Documents :
    HasProgress(user) =>
      /\ NoDuplicates(user.progress.mastered)
      /\ NoDuplicates(user.progress.needsReview)
      /\ \A w \in WordIds :
           (InSeq(user.progress.mastered, w) \/ InSeq(user.progress.needsReview, w))
             => w \in DOMAIN user.progress.words
      /\ \A w \in WordIds :
           (w \notin DOMAIN user.progress.words /\ LogTuples(user, w) = {}) =>
             /\ getProgressEntry(user, w).interval = 0
             /\ ~InSeq(user.progress.mastered, w)
             /\ ~InSeq(user.progress.needsReview, w)

\* w1 has been reviewed more than once and is persisted in needsReview, and
\* w2 has never been reviewed and is in neither array
C30_Witness ==
  \E u \in Users :
    /\ HasProgress(db[u])
    /\ "w1" \in DOMAIN db[u].progress.words
    /\ db[u].progress.words["w1"].reviewCount >= 2
    /\ db[u].progress.needsReview = <<"w1">>
    /\ "w2" \notin DOMAIN db[u].progress.words
    /\ getProgressEntry(db[u], "w2").interval = 0
    /\ ~InSeq(db[u].progress.mastered, "w2")

====
